---- MODULE Spec2Model ----
(***************************************************************************)
(* The Chip16 CPU core of src/cpu.py (class Cpu) as a state machine.       *)
(*                                                                         *)
(* State: the fields of a Cpu object (pc, sp, r, flag, memory,             *)
(* current_cyles), the calls it sends to its gpu/spu collaborators (io),   *)
(* and the record of the last call made on the object with its outcome     *)
(* (last; for step() this is what logging.info writes: the decoded         *)
(* instruction).  One action per public method: reset, step, write, read,  *)
(* create_16bit_two_complement.                                            *)
(*                                                                         *)
(* Python values: an int is an integer, None is the sentinel None (-1):    *)
(* no register or memory cell can hold a negative int, since every stored  *)
(* value is a decoded field, a random draw from 0..hhll, or a byte of a    *)
(* written 16-bit value.  An operation Python refuses on None is the       *)
(* exception "TypeError", an index outside a list "IndexError", a missing  *)
(* dictionary key "KeyError".                                              *)
(***************************************************************************)
EXTENDS Integers, Sequences, FiniteSets, TLC

\* ---------------------------------------------------------------- bounds

\* step() is not taken once current_cyles has reached MaxCycles.
MaxCycles == 4

\* hist keeps the last HistLen consecutive successful steps.
HistLen == 3

\* ------------------------------------------------------------- constants

RAM_ROM_START == 0
STACK_START == 65008                \* 0xFDF0
MEMORY_SIZE == 65536                \* len([None] * (0xFFFF + 1))
REGISTER_COUNT == 16                \* len([None] * (0xF + 1))
CARRY_SHIFT == 6                    \* carried << 6
WORD_BITS == 16                     \* 1 << 16, 1 << (16 - 1)

None == -1

\* ------------------------------------------------- Python int operators

RECURSIVE Pow2(_)
Pow2(n) == IF n = 0 THEN 1 ELSE 2 * Pow2(n - 1)

\* a >> n and a << n on a non-negative int
Shr(a, n) == a \div Pow2(n)
Shl(a, n) == a * Pow2(n)

RECURSIVE BitAnd(_, _)
BitAnd(a, b) ==
    IF a = 0 \/ b = 0 THEN 0
    ELSE (IF a % 2 = 1 /\ b % 2 = 1 THEN 1 ELSE 0) + 2 * BitAnd(a \div 2, b \div 2)

RECURSIVE BitOr(_, _)
BitOr(a, b) ==
    IF a = 0 THEN b
    ELSE IF b = 0 THEN a
    ELSE (IF a % 2 = 1 \/ b % 2 = 1 THEN 1 ELSE 0) + 2 * BitOr(a \div 2, b \div 2)

\* ------------------------------------------------------ the memory list

\* self.memory: a list of MEMORY_SIZE cells.  The model keeps the cells that
\* are not None; every other index of the list holds None.
EmptyMemory == [a \in {} |-> 0]

InMemory(address) == address >= 0 /\ address < MEMORY_SIZE

MemGet(m, address) == IF address \in DOMAIN m THEN m[address] ELSE None

MemSet(m, address, value) ==
    IF value = None
    THEN [a \in (DOMAIN m) \ {address} |-> m[a]]
    ELSE [a \in (DOMAIN m) \cup {address} |-> IF a = address THEN value ELSE m[a]]

\* x in range(len(self.r))
InRegisters(index) == index >= 0 /\ index < REGISTER_COUNT

\* ------------------------------------------------------------- variables

VARIABLES
    pc,             \* self.pc
    sp,             \* self.sp
    r,              \* self.r: 16 registers, each None or an int
    flag,           \* self.flag
    memory,         \* self.memory
    current_cyles,  \* self.current_cyles
    io,             \* the calls the last handler that made any sent to gpu/spu
    last,           \* the last call on the Cpu object, its arguments and outcome
    hist,           \* the decoded instructions of the latest successful steps
                    \* that no other call interrupted (at most HistLen)
    image           \* the program image the host loads with write()

vars == <<pc, sp, r, flag, memory, current_cyles, io, last, hist, image>>

cpu == <<pc, sp, r, flag, memory, current_cyles>>

\* ------------------------------------------------- two's complement

\* Cpu.__create_16bit_two_complement, on an int value >= 0
create_16bit_two_complement_wrong_bit(value) ==
    IF BitAnd(value, Shl(1, WORD_BITS - 2)) # 0
    THEN value - Shl(1, WORD_BITS)
    ELSE value

create_16bit_two_complement(value) ==
    IF BitAnd(value, Shl(1, WORD_BITS - 1)) # 0
    THEN value - Shl(1, WORD_BITS)
    ELSE value

\* ---------------------------------------------------------- the decoder

NoParams ==
    [op_code |-> None, y |-> None, x |-> None, n |-> None, z |-> None,
     ll |-> None, hh |-> None, hflip |-> None, vflip |-> None,
     hhll |-> None, vtsr |-> None, ad |-> None]

\* The exception create_params(address) ends in, or "none".  The cells are
\* read in the order address, address + 1, address + 2, address + 3; a cell
\* outside the list is an IndexError, a shift or mask of None a TypeError
\* (the cell at address itself is only copied, so None passes).
create_params_exc(m, address) ==
    IF ~InMemory(address) THEN "IndexError"
    ELSE IF ~InMemory(address + 1) THEN "IndexError"
    ELSE IF MemGet(m, address + 1) = None THEN "TypeError"
    ELSE IF ~InMemory(address + 2) THEN "IndexError"
    ELSE IF MemGet(m, address + 2) = None THEN "TypeError"
    ELSE IF ~InMemory(address + 3) THEN "IndexError"
    ELSE IF MemGet(m, address + 3) = None THEN "TypeError"
    ELSE "none"

\* Cpu.create_params(address), when it raises nothing
create_params(m, address) ==
    LET b1 == MemGet(m, address + 1)
        ll == MemGet(m, address + 2)
        hh == MemGet(m, address + 3)
        hhll == BitOr(Shl(hh, 8), ll)
    IN  [op_code |-> MemGet(m, address),
         y |-> Shr(b1, 4),
         x |-> BitAnd(b1, 15),
         n |-> BitAnd(ll, 15),
         z |-> BitAnd(ll, 15),
         ll |-> ll,
         hh |-> hh,
         hflip |-> Shr(hh, 1),
         vflip |-> BitAnd(hh, 1),
         hhll |-> hhll,
         vtsr |-> hhll,
         ad |-> b1]

\* ------------------------------------------------------- the accessors

\* Cpu.write(address, value): the two assignments in order; the second one
\* raises when address + 1 is outside the list, after the first took effect.
write_exc(address) ==
    IF ~InMemory(address) \/ ~InMemory(address + 1) THEN "IndexError" ELSE "none"

write_memory_big_endian(m, address, value) ==
    IF ~InMemory(address) THEN m
    ELSE IF ~InMemory(address + 1) THEN MemSet(m, address, Shr(value, 8))
    ELSE MemSet(MemSet(m, address, Shr(value, 8)), address + 1, BitAnd(value, 255))

write_memory(m, address, value) ==
    IF ~InMemory(address) THEN m
    ELSE IF ~InMemory(address + 1) THEN MemSet(m, address, BitAnd(value, 255))
    ELSE MemSet(MemSet(m, address, BitAnd(value, 255)), address + 1, Shr(value, 8))

\* Cpu.read(address): memory[address + 1] is read and shifted first, then
\* memory[address] is read and or-ed in.
read_exc(m, address) ==
    IF address = None THEN "TypeError"
    ELSE IF ~InMemory(address + 1) THEN "IndexError"
    ELSE IF MemGet(m, address + 1) = None THEN "TypeError"
    ELSE IF ~InMemory(address) THEN "IndexError"
    ELSE IF MemGet(m, address) = None THEN "TypeError"
    ELSE "none"

read_value(m, address) ==
    create_16bit_two_complement(
        BitOr(Shl(MemGet(m, address + 1), 8), MemGet(m, address)))

\* Cpu.register_pc(), Cpu.register_sp(), and Cpu.register_r(index) on a
\* register that is set
register_pc == create_16bit_two_complement(pc)

register_sp == create_16bit_two_complement(sp)

register_r(index) == create_16bit_two_complement(r[index])

\* ------------------------------------------------------ the handlers

\* What a handler of __instruction_table does when called in the current
\* state: the exception it raises ("none": it returns ret), whether that
\* exception is JmpException (jumped), and the fields as it leaves them.
Returns(length) ==
    [exc |-> "none", jumped |-> FALSE, ret |-> length, pc |-> pc, sp |-> sp,
     r |-> r, flag |-> flag, memory |-> memory, io |-> io]

Raises(exception) == [Returns(0) EXCEPT !.exc = exception]

\* The answers of the collaborators and of random.randint to one handler
NoInput == [vblank |-> FALSE, carried |-> FALSE, random |-> 0]

nop_no_advance(params) == Returns(0)

nop(params) == Returns(4)

cls(params) ==
    [Returns(4) EXCEPT !.io = << <<"gpu.clear_fg">>, <<"gpu.clear_bg">> >>]

vblank_never_waits(params, input) ==
    [Returns(4) EXCEPT !.io = << <<"gpu.vblank">> >>]

vblank_never_advances(params, input) ==
    [Returns(0) EXCEPT !.io = << <<"gpu.vblank">> >>]

vblank(params, input) ==
    [Returns(IF input.vblank THEN 4 ELSE 0) EXCEPT !.io = << <<"gpu.vblank">> >>]

bgc(params) == [Returns(4) EXCEPT !.io = << <<"gpu.bg", params.n>> >>]

spr(params) ==
    [Returns(4) EXCEPT
        !.io = << <<"gpu.spritew", params.ll>>, <<"gpu.spriteh", params.hh>> >>]

carry(f, carried) == BitOr(f, Shl(IF carried THEN 1 ELSE 0, CARRY_SHIFT))

drw_hhll(params, input) ==
    IF ~InRegisters(params.y) THEN Raises("IndexError")
    ELSE [Returns(4) EXCEPT
            !.io = << <<"gpu.drw_hhll", params.hhll, r[params.x], r[params.y]>> >>,
            !.flag = carry(flag, input.carried)]

drw_rz(params, input) ==
    IF read_exc(memory, r[params.z]) # "none"
    THEN Raises(read_exc(memory, r[params.z]))
    ELSE IF ~InRegisters(params.y) THEN Raises("IndexError")
    ELSE [Returns(4) EXCEPT
            !.io = << <<"gpu.drw_rz", read_value(memory, r[params.z]),
                        r[params.x], r[params.y]>> >>,
            !.flag = carry(flag, input.carried)]

rnd(params, input) == [Returns(4) EXCEPT !.r = [r EXCEPT ![params.x] = input.random]]

flip(params) ==
    [Returns(4) EXCEPT !.io = << <<"gpu.flip", params.hflip = 1, params.vflip = 1>> >>]

snd0(params) == [Returns(4) EXCEPT !.io = << <<"spu.stop">> >>]

snd1(params) == [Returns(4) EXCEPT !.io = << <<"spu.play500hz", params.hhll>> >>]

snd2(params) == [Returns(4) EXCEPT !.io = << <<"spu.play1000hz", params.hhll>> >>]

snd3(params) == [Returns(4) EXCEPT !.io = << <<"spu.play1500hz", params.hhll>> >>]

snp(params) ==
    IF r[params.x] = None THEN Raises("TypeError")
    ELSE IF ~InMemory(r[params.x]) THEN Raises("IndexError")
    ELSE [Returns(4) EXCEPT
            !.io = << <<"spu.play_tone", MemGet(memory, r[params.x]), params.hhll>> >>]

sng(params) == [Returns(4) EXCEPT !.io = << <<"spu.setup", params.ad, params.vtsr>> >>]

jmp_falls_through(params) == [Returns(4) EXCEPT !.pc = params.hhll]

jmp(params) ==
    [Returns(0) EXCEPT !.pc = params.hhll, !.exc = "JmpException", !.jumped = TRUE]

ldi_rx(params) == [Returns(4) EXCEPT !.r = [r EXCEPT ![params.x] = params.hhll]]

ldi_sp_into_r0(params) ==
    [Returns(4) EXCEPT !.sp = params.hhll, !.r = [r EXCEPT ![0] = params.hhll]]

ldi_sp(params) == [Returns(4) EXCEPT !.sp = params.hhll]

ldm_rx(params) ==
    IF ~InMemory(params.hhll) THEN Raises("IndexError")
    ELSE [Returns(4) EXCEPT !.r = [r EXCEPT ![params.x] = MemGet(memory, params.hhll)]]

ldm_rx_ry(params) ==
    IF ~InRegisters(params.y) THEN Raises("IndexError")
    ELSE IF r[params.y] = None THEN Raises("TypeError")
    ELSE IF ~InMemory(r[params.y]) THEN Raises("IndexError")
    ELSE [Returns(4) EXCEPT
            !.r = [r EXCEPT ![params.x] = MemGet(memory, r[params.y])]]

mov_rx_ry(params) ==
    IF ~InRegisters(params.y) THEN Raises("IndexError")
    ELSE IF r[params.y] = None THEN Raises("TypeError")
    ELSE IF ~InMemory(r[params.y]) THEN Raises("IndexError")
    ELSE [Returns(4) EXCEPT
            !.r = [r EXCEPT ![params.x] = MemGet(memory, r[params.y])]]

stm_rx_low_byte(params) ==
    IF ~InMemory(params.hhll) THEN Raises("IndexError")
    ELSE [Returns(4) EXCEPT
            !.memory = MemSet(memory, params.hhll,
                              IF r[params.x] = None THEN None
                              ELSE BitAnd(r[params.x], 255))]

stm_rx(params) ==
    IF ~InMemory(params.hhll) THEN Raises("IndexError")
    ELSE [Returns(4) EXCEPT !.memory = MemSet(memory, params.hhll, r[params.x])]

stm_rx_ry(params) ==
    IF ~InRegisters(params.y) THEN Raises("IndexError")
    ELSE IF r[params.y] = None THEN Raises("TypeError")
    ELSE IF ~InMemory(r[params.y]) THEN Raises("IndexError")
    ELSE [Returns(4) EXCEPT !.memory = MemSet(memory, r[params.y], r[params.x])]

\* ------------------------------------------------- the dispatch table

\* The keys of the dictionary __instruction_table builds
instruction_table ==
    (0 .. 14) \cup {16} \cup (32 .. 36) \cup {48, 49}

NoInstruction == None

\* self.__instruction_set[op_code]: the entry's key, or NoInstruction where
\* the dictionary lookup raises KeyError
instruction_set_default_nop(op_code) ==
    IF op_code \in instruction_table THEN op_code ELSE 0

instruction_set(op_code) ==
    IF op_code \in instruction_table THEN op_code ELSE NoInstruction

\* current_instruction['execute'](params)
execute(entry, params, input) ==
    CASE entry = 0 -> nop(params)
      [] entry = 1 -> cls(params)
      [] entry = 2 -> vblank(params, input)
      [] entry = 3 -> bgc(params)
      [] entry = 4 -> spr(params)
      [] entry = 5 -> drw_hhll(params, input)
      [] entry = 6 -> drw_rz(params, input)
      [] entry = 7 -> rnd(params, input)
      [] entry = 8 -> flip(params)
      [] entry = 9 -> snd0(params)
      [] entry = 10 -> snd1(params)
      [] entry = 11 -> snd2(params)
      [] entry = 12 -> snd3(params)
      [] entry = 13 -> snp(params)
      [] entry = 14 -> sng(params)
      [] entry = 16 -> jmp(params)
      [] entry = 32 -> ldi_rx(params)
      [] entry = 33 -> ldi_sp(params)
      [] entry = 34 -> ldm_rx(params)
      [] entry = 35 -> ldm_rx_ry(params)
      [] entry = 36 -> mov_rx_ry(params)
      [] entry = 48 -> stm_rx(params)
      [] entry = 49 -> stm_rx_ry(params)

\* The answers a handler can get: gpu.vblank() for VBLNK, the collision
\* result for the two DRW, a draw of random.randint(0, hhll) for RND
\* (its two ends and its middle).
HandlerInputs(entry, params) ==
    CASE entry = 2 -> {[NoInput EXCEPT !.vblank = b] : b \in BOOLEAN}
      [] entry \in {5, 6} -> {[NoInput EXCEPT !.carried = b] : b \in BOOLEAN}
      [] entry = 7 ->
            {[NoInput EXCEPT !.random = v] :
                v \in {0, params.hhll \div 2, params.hhll}}
      [] OTHER -> {NoInput}

\* ------------------------------------------------- the calls recorded

Call(op, exc, address, value, ret, params, input) ==
    [op |-> op, exc |-> exc, address |-> address, value |-> value, ret |-> ret,
     params |-> params, input |-> input]

\* hist after one more successful step
Remember(h, call) ==
    IF Len(h) < HistLen THEN Append(h, call) ELSE Append(Tail(h), call)

\* ------------------------------------------------------ program images

\* The two write() calls that load one 4-byte instruction at address:
\* bytes op_code, yx (y in the high nibble, x in the low), ll, hh.
Instruction(address, op_code, yx, hhll) ==
    {<<address, yx * 256 + op_code>>, <<address + 2, hhll>>}

\* The write(address, value) calls the host makes for each image: the words
\* of a short program (several candidates for some words) and data words.
ImageWords ==
    [jump |->
        Instruction(0, 16, 0, 4660)               \* JMP 0x1234
        \cup {<<2, 0>>, <<2, 4>>, <<2, 65535>>}   \* or JMP 0x0000, 0x0004, 0xFFFF
        \cup Instruction(4660, 16, 0, 0),         \* 0x1234: JMP 0x0000
     loadstore |->
        Instruction(0, 32, 0, 4779)               \* LDI r0, 0x12AB
        \cup {<<2, 171>>}                         \* or LDI r0, 0x00AB
        \cup Instruction(4, 48, 0, 8192)          \* STM r0, 0x2000
        \cup Instruction(8, 34, 1, 8192)          \* LDM r1, 0x2000
        \cup {<<8192, 34661>>},                   \* data 0x8765 at 0x2000
     selfmod |->
        Instruction(0, 32, 0, 3)                  \* LDI r0, 0x0003
        \cup {<<2, 256>>, <<2, 10>>}              \* or LDI r0, 0x0100 / 0x000A
        \cup Instruction(4, 48, 0, 9)             \* STM r0, 0x0009
        \cup {<<6, 10>>}                          \* or STM r0, 0x000A
        \cup Instruction(8, 34, 1, 9)             \* LDM r1, 0x0009
        \cup {<<8, 291>>, <<10, 10>>},            \* or LDM r3, r2 ; ll = 0x0A
     indirect |->
        Instruction(0, 32, 1, 8192)               \* LDI r1, 0x2000
        \cup Instruction(4, 49, 17, 0)            \* STM r1, r1
        \cup Instruction(8, 35, 18, 0)            \* LDM r2, r1
        \cup {<<8, 4644>>}                        \* or MOV r2, r1
        \cup {<<8192, 34661>>},                   \* data 0x8765 at 0x2000
     load |->
        Instruction(0, 34, 1, 8192)               \* LDM r1, 0x2000
        \cup Instruction(4, 32, 2, 8192)          \* LDI r2, 0x2000
        \cup Instruction(8, 35, 35, 0)            \* LDM r3, r2
        \cup {<<8192, 34661>>},                   \* data 0x8765 at 0x2000
     unknown |->
        Instruction(0, 15, 0, 0)                  \* opcode 0x0F
        \cup {<<0, 255>>, <<0, 0>>, <<0, 4384>>}  \* or 0xFF, NOP, 0x20 r1
        \cup Instruction(4, 37, 0, 4660),         \* opcode 0x25
     vblank |->
        Instruction(0, 2, 0, 0)                   \* VBLNK
        \cup Instruction(4, 2, 18, 4660)          \* VBLNK, operand bytes set
        \cup Instruction(8, 0, 0, 0),             \* NOP
     nop |->
        Instruction(0, 0, 0, 0)                   \* NOP
        \cup {<<0, 4608>>, <<2, 13398>>}          \* NOP, operand bytes set
        \cup Instruction(4, 0, 18, 4660)          \* NOP, operand bytes set
        \cup Instruction(8, 33, 0, 4660),         \* LDI sp, 0x1234
     draw |->
        Instruction(0, 32, 2, 8192)               \* LDI r2, 0x2000
        \cup Instruction(4, 6, 16, 2)             \* DRW r0, r1, r2
        \cup Instruction(8, 5, 16, 12288)         \* DRW r0, r1, 0x3000
        \cup {<<8192, 12288>>},                   \* data 0x3000 at 0x2000
     video |->
        {<<0, op_code>> : op_code \in {1, 3, 4, 8}}   \* CLS, BGC, SPR or FLIP
        \cup {<<2, 1540>>, <<2, 768>>, <<2, 512>>, <<2, 256>>, <<2, 4>>},
                                                  \* hh = 6, 3, 2, 1, 0
     sound |->
        Instruction(0, 32, 0, 8192)               \* LDI r0, 0x2000
        \cup {<<4, op_code>> : op_code \in 9 .. 14}   \* SND0 .. SNG r0
        \cup {<<6, 261>>},                        \* hhll = 0x0105
     top |->
        Instruction(0, 16, 0, 65532)              \* JMP 0xFFFC
        \cup Instruction(65532, 0, 0, 0)          \* 0xFFFC: NOP
        \cup {<<65535, 4660>>},                   \* write(0xFFFF, 0x1234)
     wide |->
        Instruction(0, 32, 0, 4660)               \* LDI r0, 0x1234
        \cup Instruction(4, 48, 0, 11)            \* STM r0, 0x000B
        \cup Instruction(8, 32, 1, 0)             \* LDI r1, hhll (hh at 0x000B)
        \cup {<<8, 263>>},                        \* or RND r1, hhll
     accessors |->
        {<<a, v>> : a \in {0, 1, 65533, 65534},
                    v \in {0, 255, 256, 32767, 32768, 65535}}]

Images == DOMAIN ImageWords

\* The addresses the host calls read() with
ReadAddresses(i) ==
    IF i = "accessors" THEN {0, 1, 2, 65533, 65534}
    ELSE IF i \in {"loadstore", "indirect", "load", "draw"} THEN {8192}
    ELSE IF i = "top" THEN {65534, 65535}
    ELSE {0}

\* ----------------------------------------------------------- the actions

\* Cpu.__init__ / Cpu.reset(): the fields as reset() assigns them
Init ==
    /\ image \in Images
    /\ current_cyles = 0
    /\ pc = RAM_ROM_START
    /\ sp = STACK_START
    /\ r = [i \in 0 .. (REGISTER_COUNT - 1) |-> None]
    /\ flag = 0
    /\ memory = EmptyMemory
    /\ io = << >>
    /\ last = Call("reset", "none", None, None, None, NoParams, NoInput)
    /\ hist = << >>

reset_keeps_memory ==
    /\ current_cyles' = 0
    /\ pc' = RAM_ROM_START
    /\ sp' = STACK_START
    /\ r' = [i \in 0 .. (REGISTER_COUNT - 1) |-> None]
    /\ flag' = 0
    /\ last' = Call("reset", "none", None, None, None, NoParams, NoInput)
    /\ hist' = << >>
    /\ UNCHANGED <<memory, io, image>>

reset ==
    /\ current_cyles' = 0
    /\ pc' = RAM_ROM_START
    /\ sp' = STACK_START
    /\ r' = [i \in 0 .. (REGISTER_COUNT - 1) |-> None]
    /\ flag' = 0
    /\ memory' = EmptyMemory
    /\ last' = Call("reset", "none", None, None, None, NoParams, NoInput)
    /\ hist' = << >>
    /\ UNCHANGED <<io, image>>

write(address, value) ==
    /\ memory' = write_memory(memory, address, value)
    /\ last' = Call("write", write_exc(address), address, value, None,
                    NoParams, NoInput)
    /\ hist' = << >>
    /\ UNCHANGED <<pc, sp, r, flag, current_cyles, io, image>>

read(address) ==
    /\ last' = Call("read", read_exc(memory, address), address, None,
                    IF read_exc(memory, address) = "none"
                    THEN read_value(memory, address) ELSE None,
                    NoParams, NoInput)
    /\ hist' = << >>
    /\ UNCHANGED <<pc, sp, r, flag, memory, current_cyles, io, image>>

\* step() when create_params or the table lookup raises: nothing is assigned
step_raises(exception, params) ==
    /\ last' = Call("step", exception, pc, None, None, params, NoInput)
    /\ hist' = << >>
    /\ UNCHANGED <<pc, sp, r, flag, memory, current_cyles, io, image>>

\* step() once the handler has run with effect e.  self.pc += execute(params)
\* reads self.pc before the call, so a handler that returns has its length
\* added to the old pc; JmpException keeps the pc the handler set; any other
\* exception leaves step() before the cycle counter is touched.
step_executes_jump_uncounted(e, params, input) ==
    LET call == Call("step", IF e.jumped THEN "none" ELSE e.exc, pc, None,
                     IF e.exc = "none" THEN e.ret ELSE None, params, input)
    IN  /\ pc' = IF e.exc = "none" THEN pc + e.ret ELSE e.pc
        /\ current_cyles' =
              IF e.exc = "none" THEN current_cyles + 1 ELSE current_cyles
        /\ sp' = e.sp
        /\ r' = e.r
        /\ flag' = e.flag
        /\ memory' = e.memory
        /\ io' = e.io
        /\ last' = call
        /\ hist' = IF call.exc = "none" THEN Remember(hist, call) ELSE << >>
        /\ UNCHANGED image

step_executes(e, params, input) ==
    LET call == Call("step", IF e.jumped THEN "none" ELSE e.exc, pc, None,
                     IF e.exc = "none" THEN e.ret ELSE None, params, input)
    IN  /\ pc' = IF e.exc = "none" THEN pc + e.ret ELSE e.pc
        /\ current_cyles' =
              IF e.exc = "none" \/ e.jumped THEN current_cyles + 1
              ELSE current_cyles
        /\ sp' = e.sp
        /\ r' = e.r
        /\ flag' = e.flag
        /\ memory' = e.memory
        /\ io' = e.io
        /\ last' = call
        /\ hist' = IF call.exc = "none" THEN Remember(hist, call) ELSE << >>
        /\ UNCHANGED image

step ==
    /\ current_cyles < MaxCycles
    /\ IF create_params_exc(memory, pc) # "none"
       THEN step_raises(create_params_exc(memory, pc), NoParams)
       ELSE LET params == create_params(memory, pc)
                entry == instruction_set(params.op_code)
            IN  IF entry = NoInstruction
                THEN step_raises("KeyError", params)
                ELSE \E input \in HandlerInputs(entry, params) :
                        step_executes(execute(entry, params, input), params, input)

Next ==
    \/ reset
    \/ \E w \in ImageWords[image] : write(w[1], w[2])
    \/ \E a \in ReadAddresses(image) : read(a)
    \/ step

Spec == Init /\ [][Next]_vars

\* ------------------------------------------- the host of a VBLNK wait

\* gpu.vblank() as the host of a frame loop sees it: the gpu may answer false
\* poll after poll, but it reports the vertical blank at the latest to the
\* poll made when current_cyles is MaxCycles - 1.
VblankReported ==
    (last'.params.op_code = 2 /\ current_cyles >= MaxCycles - 1)
        => last'.input.vblank

\* A step() of the frame loop
step_polled == step /\ VblankReported

InitWait == Init /\ image = "vblank"

\* The host loads the words of the image and keeps calling step()
NextWait ==
    \/ \E w \in ImageWords[image] : write(w[1], w[2])
    \/ step_polled

SpecWait == InitWait /\ [][NextWait]_vars /\ WF_vars(step_polled)

\* --------------------------------- the two's-complement function alone

\* Every 16-bit value is handed once to create_16bit_two_complement(value),
\* the public wrapper of __create_16bit_two_complement.
InitValue ==
    /\ image = "accessors"
    /\ current_cyles = 0
    /\ pc = RAM_ROM_START
    /\ sp = STACK_START
    /\ r = [i \in 0 .. (REGISTER_COUNT - 1) |-> None]
    /\ flag = 0
    /\ memory = EmptyMemory
    /\ io = << >>
    /\ hist = << >>
    /\ \E v \in 0 .. (Shl(1, WORD_BITS) - 1) :
          last = Call("argument", "none", None, v, None, NoParams, NoInput)

two_complement ==
    /\ last.op = "argument"
    /\ last' = Call("create_16bit_two_complement", "none", None, last.value,
                    create_16bit_two_complement(last.value), NoParams, NoInput)
    /\ UNCHANGED <<pc, sp, r, flag, memory, current_cyles, io, hist, image>>

NextValue == two_complement

SpecValue == InitValue /\ [][NextValue]_vars

\* ================================================================ claims

\* The last transition was a call of step()
Stepped == last'.op = "step"

\* A whole instruction is stored at address: its four cells exist and are set
Stored(m, address) ==
    /\ InMemory(address) /\ InMemory(address + 3)
    /\ \A k \in 0 .. 3 : MemGet(m, address + k) # None

\* The instruction a successful step has just executed
Executed(call, op_code) ==
    call.op = "step" /\ call.exc = "none" /\ call.params.op_code = op_code

\* value as a signed 16-bit number, by arithmetic
Signed16(value) == IF value >= 32768 THEN value - 65536 ELSE value

\* C1: a step() at a pc where a JMP (opcode 0x10) is stored raises nothing,
\* leaves pc equal to the instruction's hhll (not hhll + 4, not the old
\* pc + 4), changes no register, sp, flag or memory cell and adds 1 to the
\* cycle counter.
C1_JmpSetsPc ==
    [][(Stepped /\ Stored(memory, pc) /\ MemGet(memory, pc) = 16) =>
          /\ last'.exc = "none"
          /\ pc' = BitOr(Shl(MemGet(memory, pc + 3), 8), MemGet(memory, pc + 2))
          /\ r' = r /\ sp' = sp /\ flag' = flag /\ memory' = memory
          /\ current_cyles' = current_cyles + 1]_vars

\* JMP 0x1234 stored at 0 has been stepped: pc is 0x1234, neither 4 nor 0x1238
C1_Witness ==
    /\ Executed(last, 16) /\ last.address = 0 /\ last.params.hhll = 4660
    /\ pc = 4660 /\ current_cyles = 1

\* C2: after three consecutive steps that executed LDI rx, v then STM rx, a
\* then LDM ry, a, register ry holds v.
C2_LdiStmLdmRoundTrip ==
    Len(hist) >= 3 =>
        LET ldi == hist[Len(hist) - 2].params
            stm == hist[Len(hist) - 1].params
            ldm == hist[Len(hist)].params
        IN  (/\ ldi.op_code = 32 /\ stm.op_code = 48 /\ ldm.op_code = 34
             /\ stm.x = ldi.x /\ ldm.hhll = stm.hhll)
            => r[ldm.x] = ldi.hhll

\* LDI r0, 0x12AB; STM r0, 0x2000; LDM r1, 0x2000 has run: r1 = 0x12AB
C2_Witness ==
    /\ Len(hist) = 3
    /\ Executed(hist[1], 32) /\ hist[1].params.x = 0 /\ hist[1].params.hhll = 4779
    /\ Executed(hist[2], 48) /\ hist[2].params.x = 0 /\ hist[2].params.hhll = 8192
    /\ Executed(hist[3], 34) /\ hist[3].params.x = 1 /\ hist[3].params.hhll = 8192
    /\ r[1] = 4779

\* C3: every memory cell is unset or a byte value in 0..255.
C3_CellsAreBytes == \A a \in DOMAIN memory : memory[a] \in 0 .. 255

\* The address a store or load step uses: hhll (0x30, 0x22) or r[y] (0x31, 0x23)
TargetAddress(params, registers) ==
    IF params.op_code \in {48, 34} THEN params.hhll ELSE registers[params.y]

\* C4: a store step STM rx, hhll (0x30) or STM rx, ry (0x31) of a set
\* register writes r[x] as a little-endian word: memory[addr] = r[x] & 0xFF,
\* memory[addr + 1] = (r[x] >> 8) & 0xFF, and no other cell changes.
C4_StoreWritesWord ==
    [][(/\ Stepped /\ last'.exc = "none"
        /\ last'.params.op_code \in {48, 49}
        /\ r[last'.params.x] # None) =>
          LET addr == TargetAddress(last'.params, r)
              value == r[last'.params.x]
          IN  /\ MemGet(memory', addr) = BitAnd(value, 255)
              /\ MemGet(memory', addr + 1) = BitAnd(Shr(value, 8), 255)
              /\ \A a \in ((DOMAIN memory) \cup (DOMAIN memory')) \ {addr, addr + 1} :
                    MemGet(memory', a) = MemGet(memory, a)]_vars

\* C5: a load step LDM rx, hhll (0x22) or LDM rx, ry (0x23) from two set
\* cells leaves in r[x] the word with memory[addr] as its low byte and
\* memory[addr + 1] as its high byte.
C5_LoadReadsWord ==
    [][(/\ Stepped /\ last'.exc = "none"
        /\ last'.params.op_code \in {34, 35}
        /\ MemGet(memory, TargetAddress(last'.params, r)) # None
        /\ MemGet(memory, TargetAddress(last'.params, r) + 1) # None) =>
          LET addr == TargetAddress(last'.params, r)
          IN  r'[last'.params.x] =
                BitOr(Shl(MemGet(memory, addr + 1), 8), MemGet(memory, addr))]_vars

\* C6: a step() at a pc whose cell holds a byte that is no key of the
\* dispatch table raises an error (KeyError once the four cells decode) and
\* leaves pc, sp, the registers, the flags, memory and the cycle counter as
\* they were.
C6_UnknownOpcodeIsFatal ==
    [][(/\ Stepped /\ InMemory(pc)
        /\ MemGet(memory, pc) \in (0 .. 255) \ instruction_table) =>
          /\ last'.exc \in {"KeyError", "TypeError", "IndexError"}
          /\ (Stored(memory, pc) => last'.exc = "KeyError")
          /\ cpu' = cpu]_vars

\* A step at opcode 0x0F, fully decoded, has ended in KeyError
C6_Witness ==
    /\ last.op = "step" /\ last.exc = "KeyError" /\ last.params.op_code = 15
    /\ pc = last.address /\ current_cyles = 0

\* C7: a step() at a pc where a VBLNK (0x02) is stored raises nothing, adds
\* 1 to the cycle counter and changes no register, sp, flag or memory cell;
\* it leaves pc unchanged when gpu.vblank() answers false and advances pc by
\* exactly 4 when it answers true.
C7_VblankBusyPoll ==
    [][(Stepped /\ Stored(memory, pc) /\ MemGet(memory, pc) = 2) =>
          /\ last'.exc = "none"
          /\ current_cyles' = current_cyles + 1
          /\ r' = r /\ sp' = sp /\ flag' = flag /\ memory' = memory
          /\ pc' = IF last'.input.vblank THEN pc + 4 ELSE pc]_vars

\* The same VBLNK was stepped twice: first the gpu was not blanking and pc
\* stayed, then it was and pc moved on by 4; both steps were counted
C7_Witness ==
    /\ Len(hist) >= 2
    /\ LET wait == hist[Len(hist) - 1]
           go == hist[Len(hist)]
       IN  /\ Executed(wait, 2) /\ ~wait.input.vblank
           /\ Executed(go, 2) /\ go.input.vblank
           /\ go.address = wait.address
           /\ pc = wait.address + 4
           /\ current_cyles >= 2

\* C8: a step() that executes a NOP (0x00) changes no register, no memory
\* cell, no flag and not sp, and advances pc by exactly 4.
C8_NopOnlyAdvances ==
    [][(Stepped /\ Stored(memory, pc) /\ MemGet(memory, pc) = 0) =>
          /\ last'.exc = "none"
          /\ r' = r /\ memory' = memory /\ flag' = flag /\ sp' = sp
          /\ pc' = pc + 4]_vars

\* A NOP whose operand bytes are not zero was stepped at address 4
C8_Witness ==
    /\ Executed(last, 0) /\ last.address = 4 /\ last.params.hhll # 0
    /\ pc = 8

\* C9: write(a, v) with a in 0..65534 and v in 0..65535 stores v & 0xFF at a
\* and v >> 8 at a + 1, and a read(a) that follows it returns v as a signed
\* 16-bit number (v - 65536 when bit 15 of v is set, else v).
C9_WriteReadRoundTrip ==
    [][/\ (last'.op = "write" /\ last'.exc = "none") =>
            /\ MemGet(memory', last'.address) = last'.value % 256
            /\ MemGet(memory', last'.address + 1) = last'.value \div 256
       /\ (/\ last.op = "write" /\ last.exc = "none"
           /\ last'.op = "read" /\ last'.address = last.address) =>
            /\ last'.exc = "none"
            /\ last'.ret = Signed16(last.value)]_vars

\* read(65533) has returned -32768 from the cells write(65533, 0x8000) left
C9_Witness ==
    /\ last.op = "read" /\ last.address = 65533 /\ last.ret = -32768
    /\ MemGet(memory, 65533) = 0 /\ MemGet(memory, 65534) = 128

\* C10: for every v in 0..65535, create_16bit_two_complement(v) returns s in
\* -32768..32767 with s mod 65536 = v; s = v - 65536 exactly when bit 15 of
\* v is set, and s = v otherwise.
C10_TwoComplementRange ==
    last.op = "create_16bit_two_complement" =>
        LET v == last.value
            s == last.ret
            bit15 == (v \div 32768) % 2 = 1
        IN  /\ s \in -32768 .. 32767
            /\ s % 65536 = v
            /\ (s = v - 65536) <=> bit15
            /\ ~bit15 => s = v

\* 0x8000, the smallest value with bit 15 set, came back as -32768
C10_Witness ==
    /\ last.op = "create_16bit_two_complement"
    /\ last.value = 32768 /\ last.ret = -32768

\* Bit 6 of a flags word, the Carry flag
CarryBit(f) == (f \div 64) % 2

\* C11: after every DRW step (0x05 or 0x06) the Carry bit of the flags
\* equals the collision result the gpu returned for that draw (set when it
\* collided, clear when it did not, also after an earlier collision), and
\* the other flag bits are as before.
C11_CarryIsLastCollision ==
    [][(Stepped /\ last'.exc = "none" /\ last'.params.op_code \in {5, 6}) =>
          /\ CarryBit(flag') = (IF last'.input.carried THEN 1 ELSE 0)
          /\ flag' - 64 * CarryBit(flag') = flag - 64 * CarryBit(flag)]_vars

\* The cells address .. address + count - 1 exist and are all unset
Unset(m, address, count) ==
    /\ InMemory(address) /\ InMemory(address + count - 1)
    /\ \A k \in 0 .. (count - 1) : MemGet(m, address + k) = None

\* C12: unset memory cells read as zero: read(a) on two unset cells returns
\* 0, a step() whose four cells at pc are all unset executes as a NOP, an
\* LDM rx, hhll from unset cells leaves r[x] = 0, and no register-writing
\* step leaves the unset value in its register.
C12_UnsetReadsAsZero ==
    [][/\ (last'.op = "read" /\ Unset(memory, last'.address, 2)) =>
            (last'.exc = "none" /\ last'.ret = 0)
       /\ (Stepped /\ Unset(memory, pc, 4)) =>
            /\ last'.exc = "none"
            /\ pc' = pc + 4
            /\ r' = r /\ sp' = sp /\ flag' = flag /\ memory' = memory
       /\ (/\ Stepped /\ last'.exc = "none" /\ last'.params.op_code = 34
           /\ Unset(memory, last'.params.hhll, 2)) =>
            r'[last'.params.x] = 0
       /\ (/\ Stepped /\ last'.exc = "none"
           /\ last'.params.op_code \in {7, 32, 34, 35, 36}) =>
            r'[last'.params.x] # None]_vars

\* A call that raised and assigned no field
FailedAtomically == last'.exc # "none" /\ cpu' = cpu

\* C13: a memory access that leaves 0x0000-0xFFFF (write or read of a word
\* whose second cell is past 0xFFFF, a step() fetching its four bytes at
\* pc > 0xFFFC) raises an error and leaves memory, the registers, pc, sp,
\* the flags and the cycle counter as they were before the call.
C13_OutOfRangeIsAtomic ==
    [][/\ (/\ last'.op \in {"write", "read"}
           /\ ~(InMemory(last'.address) /\ InMemory(last'.address + 1))) =>
            FailedAtomically
       /\ (Stepped /\ pc > 65532) => FailedAtomically]_vars

\* C14: after any sequence of step() and write() calls, reset() leaves the
\* startup state: pc = 0x0000, sp = 0xFDF0, all 16 registers unset,
\* flags = 0, cycle counter = 0 and every memory cell unset.
C14_ResetRestoresStartup ==
    last.op = "reset" =>
        /\ pc = 0 /\ sp = 65008 /\ flag = 0 /\ current_cyles = 0
        /\ DOMAIN r = 0 .. 15 /\ \A i \in 0 .. 15 : r[i] = None
        /\ \A a \in 0 .. 65535 : MemGet(memory, a) = None

\* reset() was called after a loaded program had run far enough for one of
\* its handlers to call a collaborator (reset() leaves the collaborators alone)
C14_Witness == last.op = "reset" /\ io # << >>

\* C15: the cycle counter counts the steps taken: a step() that raises
\* nothing adds exactly 1 to it whatever the opcode (a JMP and a stalled
\* VBLNK included), reset() sets it to 0, and no other call and no failed
\* step changes it; so it never decreases between resets and is n after n
\* successful steps from reset.
C15_CyclesCountSteps ==
    [][current_cyles' =
          IF last'.op = "reset" THEN 0
          ELSE IF Stepped /\ last'.exc = "none" THEN current_cyles + 1
          ELSE current_cyles]_vars

\* Two JMP in a row from reset: both were counted
C15_Witness ==
    /\ Len(hist) = 2
    /\ Executed(hist[1], 16) /\ Executed(hist[2], 16)
    /\ current_cyles = 2

\* C16: for every fourth instruction byte hh in 0..255 the decoded hflip and
\* vflip are 0 or 1, and a FLIP step (0x08) asks the gpu for horizontal
\* mirroring exactly when bit 1 of hh is set and for vertical mirroring
\* exactly when bit 0 of hh is set.
C16_FlipFlagsAreBits ==
    (last.op = "step" /\ last.params.hh \in 0 .. 255) =>
        /\ last.params.hflip \in {0, 1}
        /\ last.params.vflip \in {0, 1}
        /\ Executed(last, 8) =>
              io = << <<"gpu.flip", (last.params.hh \div 2) % 2 = 1,
                                    last.params.hh % 2 = 1>> >>

\* C17: pc stays inside the address space 0x0000..0xFFFF, so register_pc()
\* returns a value in -32768..32767; an advance of 4 from pc = 0xFFFC does
\* not leave pc at 0x10000.
C17_PcStaysInAddressSpace ==
    /\ pc \in 0 .. 65535
    /\ register_pc \in -32768 .. 32767

\* The opcodes whose handler assigns a register: RND, LDI, LDM, LDM, MOV
RegisterWriters == {7, 32, 34, 35, 36}

\* C18: the frame of step(): memory is changed only by the store opcodes
\* (0x30, 0x31); sp only by LDI sp (0x21), which changes no general
\* register; the flags only by the DRW opcodes (0x05, 0x06); the registers
\* only by RND, LDI, LDM and MOV (0x07, 0x20, 0x22, 0x23, 0x24), each of
\* which changes r[x] alone.
C18_StepFrame ==
    [][Stepped =>
          LET op_code == last'.params.op_code
          IN  /\ memory' # memory => op_code \in {48, 49}
              /\ sp' # sp => op_code = 33
              /\ op_code = 33 => r' = r
              /\ flag' # flag => op_code \in {5, 6}
              /\ r' # r => op_code \in RegisterWriters
              /\ op_code \in RegisterWriters =>
                    \A i \in (0 .. 15) \ {last'.params.x} : r'[i] = r[i]]_vars

\* LDI sp, 0x1234 has run: sp is 0x1234 and every register is still unset
C18_Witness ==
    /\ Executed(last, 33) /\ last.params.hhll = 4660
    /\ sp = 4660
    /\ \A i \in 0 .. 15 : r[i] = None

\* pc is at a VBLNK stored at address, and step() can still be called
Waiting(address) ==
    /\ pc = address
    /\ Stored(memory, address) /\ MemGet(memory, address) = 2
    /\ current_cyles < MaxCycles

\* C19: with pc at a VBLNK instruction, if step() keeps being called and
\* the gpu eventually reports vblank, pc eventually becomes the old pc + 4;
\* and every step taken while the gpu does not report vblank leaves pc at
\* the VBLNK instruction.
C19_VblankProgress ==
    /\ \A address \in {0, 4} : Waiting(address) ~> (pc = address + 4)
    /\ [][(/\ Stepped /\ Stored(memory, pc) /\ MemGet(memory, pc) = 2
           /\ ~last'.input.vblank) => pc' = pc]_vars

\* Three steps on the same VBLNK: the gpu was not blanking twice and pc
\* stayed, the third time it was and pc is now 4 further
C19_Witness ==
    /\ Len(hist) = 3
    /\ \A i \in 1 .. 3 : Executed(hist[i], 2) /\ hist[i].address = hist[1].address
    /\ ~hist[1].input.vblank /\ ~hist[2].input.vblank /\ hist[3].input.vblank
    /\ pc = hist[1].address + 4

\* C20: in every state reached from reset by write() and step() calls each
\* register r[0..15] is unset or an integer in 0..65535, so register_r(i)
\* of a set register is in -32768..32767; and after RND rx, hhll the
\* register holds 0 <= r[x] <= hhll.
C20_RegistersAreWords ==
    /\ \A i \in 0 .. 15 :
          r[i] # None =>
              /\ r[i] \in 0 .. 65535
              /\ register_r(i) \in -32768 .. 32767
    /\ Executed(last, 7) =>
          /\ r[last.params.x] >= 0
          /\ r[last.params.x] <= last.params.hhll

====
